---- MODULE Spec2Model ----
(***************************************************************************)
(* A model of ghru (GitHub Release Updater, v2): release resolution        *)
(* (Config.Latest), the self-update sequence (Config.SelfUpdate), archive  *)
(* extraction (tarExtract / unzip) and the replacement of the running      *)
(* executable (replaceFile).                                               *)
(*                                                                         *)
(* Strings are sequences of tokens ("v1.0.0" is <<"v", "1.0.0">>), paths   *)
(* are sequences of components, file contents are sequences of bytes.      *)
(***************************************************************************)
EXTENDS Integers, Sequences, FiniteSets, TLC

VARIABLES cfg, feed, latest, pc, ret, fs, fs0, tempDir, arch, idx, open

vars == <<cfg, feed, latest, pc, ret, fs, fs0, tempDir, arch, idx, open>>

(***************************************************************************)
(* Bounds of the model.                                                    *)
(***************************************************************************)
\* longest release feed resolution is run on
MaxFeed == 2
\* longest <binary>.new file left over in the install directory
MaxLeftover == 3

(***************************************************************************)
(* Strings.                                                                *)
(***************************************************************************)
HasPrefix(s, p) == Len(p) <= Len(s) /\ SubSeq(s, 1, Len(p)) = p

Last(s) == s[Len(s)]

Front(s) == SubSeq(s, 1, Len(s) - 1)

\* strings.ToLower on one token
LowerToken(t) ==
    CASE t = ".ZIP" -> ".zip"
      [] t = ".TAR.GZ" -> ".tar.gz"
      [] t = ".TGZ" -> ".tgz"
      [] t = ".TAR.BZ2" -> ".tar.bz2"
      [] OTHER -> t

ToLower(s) == [i \in 1..Len(s) |-> LowerToken(s[i])]

(***************************************************************************)
(* golang.org/x/mod/semver, as Latest and SelfUpdate use it.               *)
(***************************************************************************)
\* MAJOR.MINOR.PATCH tokens and their numbers
CoreNum ==
    ("1.0.0" :> <<1, 0, 0>>) @@ ("1.1.0" :> <<1, 1, 0>>) @@ ("1.2.0" :> <<1, 2, 0>>)
        @@ ("0.9.0" :> <<0, 9, 0>>)

\* pre-release suffixes and their rank in semver order
PreRank == ("-beta1" :> 1) @@ ("-rc1" :> 2)

BuildTokens == {"+b"}

\* the "v" prefix Latest and SelfUpdate add to a version that lacks it
Normalize(s) == IF Len(s) > 0 /\ s[1] = "v" THEN s ELSE <<"v">> \o s

IsValid(v) ==
    /\ Len(v) >= 2
    /\ v[1] = "v"
    /\ v[2] \in DOMAIN CoreNum
    /\ \/ Len(v) = 2
       \/ Len(v) = 3 /\ (v[3] \in DOMAIN PreRank \/ v[3] \in BuildTokens)
       \/ Len(v) = 4 /\ v[3] \in DOMAIN PreRank /\ v[4] \in BuildTokens

Prerelease(v) ==
    IF IsValid(v) /\ Len(v) >= 3 /\ v[3] \in DOMAIN PreRank THEN v[3] ELSE ""

\* rank of the pre-release part: a version without one sorts above all with one
PreOrd(v) == IF Prerelease(v) = "" THEN 99 ELSE PreRank[Prerelease(v)]

TupleCmp(a, b) ==
    IF a[1] # b[1] THEN (IF a[1] < b[1] THEN -1 ELSE 1)
    ELSE IF a[2] # b[2] THEN (IF a[2] < b[2] THEN -1 ELSE 1)
    ELSE IF a[3] # b[3] THEN (IF a[3] < b[3] THEN -1 ELSE 1)
    ELSE 0

\* semver.Compare: an invalid version is below every valid one, build metadata
\* is ignored
Compare(v, w) ==
    IF ~IsValid(v) /\ ~IsValid(w) THEN 0
    ELSE IF ~IsValid(v) THEN -1
    ELSE IF ~IsValid(w) THEN 1
    ELSE IF TupleCmp(CoreNum[v[2]], CoreNum[w[2]]) # 0
         THEN TupleCmp(CoreNum[v[2]], CoreNum[w[2]])
    ELSE IF PreOrd(v) < PreOrd(w) THEN -1
    ELSE IF PreOrd(v) > PreOrd(w) THEN 1
    ELSE 0

\* the order semver.Sort sorts by: Compare, then the strings themselves
\* (among versions Compare holds equal the shorter string is a prefix)
SortLess(v, w) ==
    \/ Compare(v, w) < 0
    \/ Compare(v, w) = 0 /\ Len(v) < Len(w)

(***************************************************************************)
(* Archive names: the ArchiveName template and detectFileType.             *)
(***************************************************************************)
\* runtime.GOARCH of the build
GOARCH == "amd64"

\* template.Parse fails on an action that is never closed
ParseOK(templ) == \A i \in 1..Len(templ) : templ[i] # "{{"

\* one item of the template, executed on the map {OS, Arch, Version}: a field
\* the map lacks prints as "<no value>"
RenderItem(item, os, version) ==
    CASE item = "{{.OS}}" -> <<os>>
      [] item = "{{.Arch}}" -> <<GOARCH>>
      [] item = "{{.Version}}" -> version
      [] item = "{{.Ext}}" -> <<"<no value>">>
      [] OTHER -> <<item>>

RECURSIVE Render(_, _, _)
Render(templ, os, version) ==
    IF templ = <<>> THEN <<>>
    ELSE RenderItem(Head(templ), os, version) \o Render(Tail(templ), os, version)

\* detectFileType: the archive kind of a file name remainder, "" when unsupported
DetectFileType(remainder) ==
    LET r == ToLower(remainder) IN
    IF r = <<>> THEN ""
    ELSE IF Last(r) \in {".tar.gz", ".tgz"} THEN "tar.gz"
    ELSE IF Last(r) = ".tar.bz2" THEN "tar.bz2"
    ELSE IF Last(r) = ".zip" THEN "zip"
    ELSE ""

(***************************************************************************)
(* Config.Latest.                                                          *)
(***************************************************************************)
\* Release{}
NoRelease ==
    [Name |-> <<>>, Tag |-> <<>>, Prerelease |-> FALSE, URL |-> 0, Size |-> 0,
     FileType |-> ""]

\* validConfig, for the fields the model varies
ValidConfig(c) == c.ArchiveName # <<>> /\ c.CurrentVersion # <<>>

\* Skip without the feed's pre-release flag
SkipMutNoFlag(c, r) ==
    LET version == Normalize(r.Tag) IN
    \/ ~IsValid(version)
    \/ ~c.AllowPreReleases /\ Prerelease(version) # ""
    \/ Compare(version, Normalize(c.CurrentVersion)) < 0

\* Skip dropping the releases equal to the current version too
SkipMutStrict(c, r) ==
    LET version == Normalize(r.Tag) IN
    \/ ~IsValid(version)
    \/ ~c.AllowPreReleases /\ (Prerelease(version) # "" \/ r.Prerelease)
    \/ Compare(version, Normalize(c.CurrentVersion)) <= 0

\* the three version filters of the loop over the releases
Skip(c, r) ==
    LET version == Normalize(r.Tag) IN
    \/ ~IsValid(version)
    \/ ~c.AllowPreReleases /\ (Prerelease(version) # "" \/ r.Prerelease)
    \/ Compare(version, Normalize(c.CurrentVersion)) < 0

\* whether an asset is taken for the rendered archive name
AssetFits(a, archiveName) ==
    /\ HasPrefix(a.Name, archiveName)
    /\ DetectFileType(SubSeq(a.Name, Len(archiveName) + 1, Len(a.Name))) # ""

\* a loop without the break: the last fitting asset is the one kept
MatchAssetMutLast(assets, archiveName) ==
    IF \E i \in 1..Len(assets) : AssetFits(assets[i], archiveName)
    THEN CHOOSE i \in 1..Len(assets) :
            /\ AssetFits(assets[i], archiveName)
            /\ \A j \in (i + 1)..Len(assets) : ~AssetFits(assets[j], archiveName)
    ELSE 0

\* the loop over the assets of a release: the index of the asset it stops at,
\* 0 when it runs to the end
MatchAsset(assets, archiveName) ==
    IF \E i \in 1..Len(assets) : AssetFits(assets[i], archiveName)
    THEN CHOOSE i \in 1..Len(assets) :
            /\ AssetFits(assets[i], archiveName)
            /\ \A j \in 1..(i - 1) : ~AssetFits(assets[j], archiveName)
    ELSE 0

ThisRelease(r, a, archiveName) ==
    [Name |-> a.Name, Tag |-> r.Tag, Prerelease |-> r.Prerelease, URL |-> a.URL,
     Size |-> a.Size,
     FileType |-> DetectFileType(SubSeq(a.Name, Len(archiveName) + 1, Len(a.Name)))]

\* the loop over the releases from release i on, allReleases being m so far
RECURSIVE ScanReleases(_, _, _, _)
ScanReleases(c, rs, i, m) ==
    IF i > Len(rs) THEN [err |-> "", all |-> m]
    ELSE IF Skip(c, rs[i]) THEN ScanReleases(c, rs, i + 1, m)
    ELSE IF ~ParseOK(c.ArchiveName)
         THEN [err |-> "failed to parse archive template", all |-> m]
    ELSE LET version == Normalize(rs[i].Tag)
             archiveName == Render(c.ArchiveName, c.GOOS, version)
             k == MatchAsset(rs[i].Assets, archiveName)
         IN  IF k = 0 THEN ScanReleases(c, rs, i + 1, m)
             ELSE ScanReleases(c, rs, i + 1,
                      (version :> ThisRelease(rs[i], rs[i].Assets[k], archiveName))
                          @@ m)

EmptyMap == [v \in {} |-> NoRelease]

\* the first version of the sorted slice of keys
LastSortedMutFirst(keys) == CHOOSE v \in keys : \A w \in keys : w = v \/ SortLess(v, w)

\* the last version of the sorted slice of keys
LastSorted(keys) == CHOOSE v \in keys : \A w \in keys : w = v \/ SortLess(w, v)

\* Latest on the decoded release list
Latest(c, rs) ==
    IF ~ValidConfig(c) THEN [err |-> "invalid config", rel |-> NoRelease]
    ELSE LET scan == ScanReleases(c, rs, 1, EmptyMap) IN
         IF scan.err # "" THEN [err |-> scan.err, rel |-> NoRelease]
         ELSE IF DOMAIN scan.all = {} THEN [err |-> "no releases found", rel |-> NoRelease]
         ELSE [err |-> "", rel |-> scan.all[LastSorted(DOMAIN scan.all)]]

(***************************************************************************)
(* Paths (path/filepath) and the filesystem.  An absolute path is the      *)
(* sequence of its components from the root; the name of an archive entry  *)
(* is a sequence of components that may hold "..", and starts with "/"     *)
(* when it is absolute.                                                    *)
(***************************************************************************)
\* the lexical processing of filepath.Clean: out is the cleaned part so far
RECURSIVE CleanFrom(_, _, _)
CleanFrom(out, rest, rooted) ==
    IF rest = <<>> THEN out
    ELSE LET c == Head(rest) IN
         IF c = "." \/ c = "/" THEN CleanFrom(out, Tail(rest), rooted)
         ELSE IF c = ".." THEN
              IF out # <<>> /\ Last(out) # ".." THEN CleanFrom(Front(out), Tail(rest), rooted)
              ELSE IF rooted THEN CleanFrom(out, Tail(rest), rooted)
              ELSE CleanFrom(Append(out, ".."), Tail(rest), rooted)
         ELSE CleanFrom(Append(out, c), Tail(rest), rooted)

\* filepath.Clean of an entry name
Clean(name) ==
    IF name # <<>> /\ name[1] = "/" THEN <<"/">> \o CleanFrom(<<>>, Tail(name), TRUE)
    ELSE CleanFrom(<<>>, name, FALSE)

\* filepath.Join of an absolute directory and a name
Join(dir, name) == CleanFrom(<<>>, dir \o name, TRUE)

\* filepath.Dir of an absolute path
Dir(path) == IF path = <<>> THEN <<>> ELSE Front(path)

\* whether path lies strictly below dir
Within(path, dir) == Len(path) > Len(dir) /\ SubSeq(path, 1, Len(dir)) = dir

IsFile(f, p) == p \in DOMAIN f /\ f[p].kind = "file"

\* isDir
IsDir(f, p) == p \in DOMAIN f /\ f[p].kind = "dir"

DirNode == [kind |-> "dir", data |-> <<>>]

FileNode(bytes) == [kind |-> "file", data |-> bytes]

Prefixes(p) == {SubSeq(p, 1, n) : n \in 0..Len(p)}

\* os.MkdirAll succeeds unless a component of the path is a file
CanMkdirAll(f, p) == \A q \in Prefixes(p) : ~IsFile(f, q)

MkdirAll(f, p) ==
    [q \in DOMAIN f \cup Prefixes(p) |-> IF q \in DOMAIN f THEN f[q] ELSE DirNode]

\* os.Create, os.OpenFile(O_CREATE|O_TRUNC): the parent must be a directory
CanCreate(f, p) == p # <<>> /\ IsDir(f, Dir(p)) /\ ~IsDir(f, p)

PutFile(f, p, bytes) ==
    [q \in DOMAIN f \cup {p} |-> IF q = p THEN FileNode(bytes) ELSE f[q]]

\* bytes written from offset 0 over a file that is not truncated
Overwrite(old, bytes) ==
    IF Len(old) > Len(bytes) THEN bytes \o SubSeq(old, Len(bytes) + 1, Len(old))
    ELSE bytes

Unlink(f, p) == [q \in DOMAIN f \ {p} |-> f[q]]

\* os.Rename of a file
CanRename(f, from, to) == IsFile(f, from) /\ IsDir(f, Dir(to)) /\ ~IsDir(f, to)

Rename(f, from, to) ==
    [q \in (DOMAIN f \ {from}) \cup {to} |-> IF q = to THEN f[from] ELSE f[q]]

\* os.Remove of a file
CanRemove(f, p) == IsFile(f, p)

(***************************************************************************)
(* The inputs: release feeds, configurations, archives, install layouts.   *)
(***************************************************************************)
Tags ==
    {<<"1.0.0">>, <<"v", "1.0.0">>, <<"v", "1.1.0">>, <<"v", "1.1.0", "+b">>,
     <<"v", "1.2.0", "-beta1">>, <<"latest">>}

Asset(name, id) == [Name |-> name, URL |-> id, Size |-> 10 * id]

AssetLists ==
    {<<Asset(<<"app-", "linux", "-", "amd64", ".sha256">>, 1),
       Asset(<<"app-", "linux", "-", "amd64", ".ZIP">>, 2),
       Asset(<<"app-", "linux", "-", "amd64", ".tar.gz">>, 3),
       Asset(<<"app-", "windows", "-", "amd64", ".zip">>, 4)>>,
     <<Asset(<<"app-", "v", "1.1.0", "-", "linux", ".tar.bz2">>, 5),
       Asset(<<"app-", "linux", "-", "amd64", ".tgz">>, 6),
       Asset(<<"app-", "windows", "-", "amd64", ".tar.gz">>, 7)>>,
     <<Asset(<<"other-", "linux", "-", "amd64", ".zip">>, 8),
       Asset(<<"app-", "linux", "-", "amd64", ".txt">>, 9)>>}

Releases == [Tag : Tags, Prerelease : BOOLEAN, Assets : AssetLists]

Feeds == UNION {[1..n -> Releases] : n \in 0..MaxFeed}

PlainName == <<"app-", "{{.OS}}", "-", "{{.Arch}}">>

VersionName == <<"app-", "{{.Version}}", "-", "{{.OS}}">>

BrokenName == <<"app-", "{{">>

CurrentVersions == {<<"1.0.0">>, <<"v", "1.1.0">>, <<"dev">>}

Config(cur, pre, templ, os) ==
    [CurrentVersion |-> cur, AllowPreReleases |-> pre, ArchiveName |-> templ,
     BinaryName |-> "app", GOOS |-> os]

\* the configurations resolution is run on
LatestConfigs ==
    {Config(cur, pre, templ, "linux") :
        cur \in CurrentVersions, pre \in BOOLEAN, templ \in {PlainName, VersionName}}
        \cup {Config(<<"1.0.0">>, TRUE, BrokenName, "linux"),
              Config(<<>>, FALSE, PlainName, "linux")}

\* the configurations and feeds a self-update is run on
UpdateConfigs ==
    {Config(cur, TRUE, PlainName, os) :
        cur \in CurrentVersions, os \in {"linux", "windows"}}

UpdateFeeds == {<<>>} \cup {<<r>> : r \in {q \in Releases : ~q.Prerelease}}

\* contents of the running executable, of the binary in the archives, and of
\* other files
OldBin == <<1>>

NewBin == <<2, 2>>

File(name, bytes) == [name |-> name, dir |-> FALSE, data |-> bytes]

Folder(name) == [name |-> name, dir |-> TRUE, data |-> <<>>]

\* the archives a download may deliver
Archives ==
    << <<File(<<"doc", "README">>, <<7>>), File(<<"app">>, NewBin)>>,
       <<File(<<"app.exe">>, NewBin)>>,
       <<Folder(<<"app">>), File(<<"app", "app">>, NewBin)>>,
       <<File(<<"..", "x">>, <<5>>), File(<<"app">>, NewBin)>>,
       <<Folder(<<"..">>), File(<<"app">>, NewBin), File(<<"app.exe">>, NewBin)>>,
       <<File(<<"app">>, NewBin), File(<<"a", "..", "..", "x">>, <<5>>),
         File(<<"late">>, <<6>>)>>,
       <<File(<<"/", "abs", "x">>, <<5>>), File(<<"app">>, NewBin)>> >>

\* the bytes of a downloaded archive file: the archive, and where its stream is
\* corrupt (0: nowhere, 1: in the header of entry at, 2: in the data of entry at)
Downloads ==
    {<<id, 0, 0>> : id \in DOMAIN Archives}
        \cup {<<id, 1, 1>> : id \in DOMAIN Archives}
        \cup {<<id, 2, Len(Archives[id])>> : id \in DOMAIN Archives}

NoArch == [entries |-> <<>>, where |-> 0, at |-> 0]

\* the reader opened on an archive file
OpenArchive(bytes) ==
    IF Len(bytes) = 3 /\ bytes[1] \in DOMAIN Archives
    THEN [entries |-> Archives[bytes[1]], where |-> bytes[2], at |-> bytes[3]]
    ELSE [entries |-> <<>>, where |-> 1, at |-> 1]

InstallDir == <<"bin">>

\* os.TempDir()
SysTemp == <<"tmp">>

\* the directory getTempDir names: updater-<random hex> in os.TempDir()
StagingDir == Append(SysTemp, "updater-r")

ExeName(os) == IF os = "windows" THEN "app.exe" ELSE "app"

\* fmt.Sprintf("%s.old", binaryFilename)
DstOld(binaryFilename) == IF binaryFilename = "app.exe" THEN "app.exe.old" ELSE "app.old"

\* fmt.Sprintf("%s.new", binaryFilename)
DstNew(binaryFilename) == IF binaryFilename = "app.exe" THEN "app.exe.new" ELSE "app.new"

\* os.Executable()
OldExec(c) == Append(InstallDir, ExeName(c.GOOS))

\* newExec in SelfUpdate
NewExec(c) == Append(StagingDir, ExeName(c.GOOS))

OldTmpAbs(c) == Append(InstallDir, DstOld(ExeName(c.GOOS)))

NewTmpAbs(c) == Append(InstallDir, DstNew(ExeName(c.GOOS)))

\* outFile in SelfUpdate (the asset's file name is one component)
OutFile == Append(StagingDir, "asset")

Leftovers == {[n \in 1..k |-> 9] : k \in 1..MaxLeftover}

BaseLayout == (<<>> :> DirNode) @@ (InstallDir :> DirNode) @@ (SysTemp :> DirNode)

\* the install directory before the update: the running executable, which may
\* have been unlinked, and what an earlier attempt may have left
Layouts(c) ==
    {exe @@ new @@ old @@ BaseLayout :
        exe \in {<<>> :> DirNode, OldExec(c) :> FileNode(OldBin)},
        new \in {<<>> :> DirNode} \cup {NewTmpAbs(c) :> FileNode(l) : l \in Leftovers},
        old \in {<<>> :> DirNode, OldTmpAbs(c) :> FileNode(<<8>>)}}

NotCalled == [err |-> "not called", rel |-> NoRelease]

NoRet == [err |-> "not returned", rel |-> NoRelease]

Init ==
    /\ cfg \in UpdateConfigs
    /\ feed \in UpdateFeeds
    /\ fs \in Layouts(cfg)
    /\ fs0 = fs
    /\ latest = NotCalled
    /\ pc = "start"
    /\ ret = NoRet
    /\ tempDir = <<>>
    /\ arch = NoArch
    /\ idx = 0
    /\ open = {}

InitLatest ==
    /\ cfg \in LatestConfigs
    /\ feed \in Feeds
    /\ fs = (OldExec(cfg) :> FileNode(OldBin)) @@ BaseLayout
    /\ fs0 = fs
    /\ latest = NotCalled
    /\ pc = "start"
    /\ ret = NoRet
    /\ tempDir = <<>>
    /\ arch = NoArch
    /\ idx = 0
    /\ open = {}

(***************************************************************************)
(* Config.Latest as a step: the release list is fetched and resolved, or   *)
(* the fetch fails.                                                        *)
(***************************************************************************)
Resolve ==
    /\ pc = "start"
    /\ latest' = Latest(cfg, feed)
    /\ pc' = "resolved"
    /\ UNCHANGED <<cfg, feed, ret, fs, fs0, tempDir, arch, idx, open>>

FetchFail ==
    /\ pc = "start"
    /\ ValidConfig(cfg)
    /\ latest' = [err |-> "failed to fetch releases", rel |-> NoRelease]
    /\ pc' = "resolved"
    /\ UNCHANGED <<cfg, feed, ret, fs, fs0, tempDir, arch, idx, open>>

NextLatest == Resolve \/ FetchFail

SpecLatest == InitLatest /\ [][NextLatest]_vars

(***************************************************************************)
(* Config.SelfUpdate up to the extraction.  Every call into the operating  *)
(* system or the network may fail for a reason of the environment.         *)
(***************************************************************************)
\* return latestRelease, err
Return(e) ==
    /\ pc' = "returned"
    /\ ret' = [err |-> e, rel |-> latest.rel]

\* NoNewer with < in the place of <=
NoNewerMutLess(c, rel) ==
    LET v == Normalize(c.CurrentVersion)
        latestCompareVer == Normalize(rel.Tag)
    IN  \/ rel.Tag = c.CurrentVersion
        \/ IsValid(v) /\ Compare(latestCompareVer, v) < 0

\* the test SelfUpdate makes of the release Latest returned
NoNewer(c, rel) ==
    LET v == Normalize(c.CurrentVersion)
        latestCompareVer == Normalize(rel.Tag)
    IN  \/ rel.Tag = c.CurrentVersion
        \/ IsValid(v) /\ Compare(latestCompareVer, v) <= 0

SU_Check ==
    /\ pc = "resolved"
    /\ IF latest.err # ""
       THEN pc' = "returned" /\ ret' = [err |-> latest.err, rel |-> NoRelease]
       ELSE IF NoNewer(cfg, latest.rel)
            THEN Return("no newer releases found")
            ELSE pc' = "tempdir" /\ ret' = ret
    /\ UNCHANGED <<cfg, feed, latest, fs, fs0, tempDir, arch, idx, open>>

\* getTempDir: the directory is named once, and made when it is no directory
SU_GetTempDir ==
    /\ pc = "tempdir"
    /\ tempDir' = IF tempDir = <<>> THEN StagingDir ELSE tempDir
    /\ \/ /\ CanMkdirAll(fs, tempDir')
          /\ fs' = MkdirAll(fs, tempDir')
          /\ pc' = "download"
          /\ ret' = ret
       \/ /\ ~IsDir(fs, tempDir')
          /\ Return("mkdir temp dir")
          /\ fs' = fs
    /\ UNCHANGED <<cfg, feed, latest, fs0, arch, idx, open>>

\* downloadToFile(latestRelease.URL, outFile)
SU_Download ==
    /\ pc = "download"
    /\ \/ /\ Return("failed to download file")
          /\ fs' = fs
       \/ /\ CanCreate(fs, OutFile)
          /\ fs' = PutFile(fs, OutFile, <<>>)
          /\ Return("download interrupted")
       \/ /\ CanCreate(fs, OutFile)
          /\ \E d \in Downloads : fs' = PutFile(fs, OutFile, d)
          /\ pc' = "extract"
          /\ ret' = ret
    /\ UNCHANGED <<cfg, feed, latest, fs0, tempDir, arch, idx, open>>

\* the switch on latestRelease.FileType; tarExtract finds the output directory
\* in place, so that it has nothing to undo; the archive file is opened
SU_Extract ==
    /\ pc = "extract"
    /\ \/ /\ Return("open archive")
          /\ UNCHANGED <<arch, idx>>
       \/ /\ arch' = OpenArchive(fs[OutFile].data)
          /\ idx' = 1
          /\ pc' = IF latest.rel.FileType = "zip" THEN "zip" ELSE "tar"
          /\ ret' = ret
    /\ UNCHANGED <<cfg, feed, latest, fs, fs0, tempDir, open>>

(***************************************************************************)
(* extractArchive: one step per tar entry.                                 *)
(***************************************************************************)
\* strings.Contains(name, "..") on one component
ContainsDotDot(c) == c \in {"..", "x..y"}

\* header.FileInfo().Name(): the base name of the entry
TarBase(e) ==
    IF e.dir
    THEN (IF Clean(e.name) = <<>> THEN "." ELSE Last(Clean(e.name)))
    ELSE Last(e.name)

\* filepath.Join(directory, filepath.Dir(header.Name)); the name of a
\* directory entry ends with a slash
TarDir(directory, e) == Join(directory, IF e.dir THEN e.name ELSE Front(e.name))

TarFilename(directory, e) == Join(TarDir(directory, e), <<TarBase(e)>>)

\* the entries the loop passes over
TarSkips(e) == ContainsDotDot(TarBase(e))

ProperPrefixes(bytes) == {SubSeq(bytes, 1, n) : n \in 0..(Len(bytes) - 1)}

TarHeaderBad == arch.where = 1 /\ arch.at = idx

TarEnd ==
    /\ pc = "tar"
    /\ ~TarHeaderBad
    /\ idx > Len(arch.entries)
    /\ pc' = "chmod"
    /\ UNCHANGED <<cfg, feed, latest, ret, fs, fs0, tempDir, arch, idx, open>>

TarEntry ==
    /\ pc = "tar"
    /\ \/ /\ TarHeaderBad
          /\ Return("tar: invalid header")
          /\ UNCHANGED <<fs, idx>>
       \/ /\ ~TarHeaderBad
          /\ idx <= Len(arch.entries)
          /\ LET e == arch.entries[idx]
                 dir == TarDir(tempDir, e)
                 filename == TarFilename(tempDir, e)
                 made == IF IsDir(fs, dir) THEN fs ELSE MkdirAll(fs, dir)
             IN  \/ /\ TarSkips(e)
                    /\ idx' = idx + 1
                    /\ UNCHANGED <<fs, pc, ret>>
                 \/ /\ ~TarSkips(e)
                    /\ e.dir
                    /\ \/ /\ CanMkdirAll(fs, filename)
                          /\ fs' = MkdirAll(fs, filename)
                          /\ idx' = idx + 1
                          /\ UNCHANGED <<pc, ret>>
                       \/ /\ Return("mkdir")
                          /\ UNCHANGED <<fs, idx>>
                 \/ /\ ~TarSkips(e)
                    /\ ~e.dir
                    /\ \/ /\ ~IsDir(fs, dir)
                          /\ Return("mkdir")
                          /\ UNCHANGED <<fs, idx>>
                       \/ /\ IsDir(fs, dir) \/ CanMkdirAll(fs, dir)
                          /\ Return("create file")
                          /\ fs' = made
                          /\ idx' = idx
                       \/ /\ IsDir(fs, dir) \/ CanMkdirAll(fs, dir)
                          /\ CanCreate(made, filename)
                          /\ arch.where = 2 /\ arch.at = idx
                          /\ \E part \in ProperPrefixes(e.data) :
                                fs' = PutFile(made, filename, part)
                          /\ pc' = "panicked"
                          /\ UNCHANGED <<ret, idx>>
                       \/ /\ IsDir(fs, dir) \/ CanMkdirAll(fs, dir)
                          /\ CanCreate(made, filename)
                          /\ ~(arch.where = 2 /\ arch.at = idx)
                          /\ \E part \in ProperPrefixes(e.data) :
                                fs' = PutFile(made, filename, part)
                          /\ Return("write file")
                          /\ idx' = idx
                       \/ /\ IsDir(fs, dir) \/ CanMkdirAll(fs, dir)
                          /\ CanCreate(made, filename)
                          /\ ~(arch.where = 2 /\ arch.at = idx)
                          /\ fs' = PutFile(made, filename, e.data)
                          /\ idx' = idx + 1
                          /\ UNCHANGED <<pc, ret>>
    /\ UNCHANGED <<cfg, feed, latest, fs0, tempDir, arch, open>>

(***************************************************************************)
(* unzip: one step per zip entry.                                          *)
(***************************************************************************)
ZipPath(dest, e) == Join(dest, Clean(e.name))

\* a check that looks at the first component of the name only
ZipLegalMutFirst(dest, e) == e.name = <<>> \/ e.name[1] # ".."

\* the ZipSlip check: filePath has the prefix dest + separator
ZipLegal(dest, e) == Within(ZipPath(dest, e), dest)

ZipEnd ==
    /\ pc = "zip"
    /\ idx > Len(arch.entries)
    /\ pc' = "chmod"
    /\ UNCHANGED <<cfg, feed, latest, ret, fs, fs0, tempDir, arch, idx, open>>

ZipEntry ==
    /\ pc = "zip"
    /\ idx <= Len(arch.entries)
    /\ LET e == arch.entries[idx]
           filePath == ZipPath(tempDir, e)
           made == MkdirAll(fs, Dir(filePath))
           bad == arch.at = idx /\ arch.where # 0
       IN  \/ /\ ~ZipLegal(tempDir, e)
              /\ Return("illegal file path")
              /\ UNCHANGED <<fs, idx>>
           \/ /\ ZipLegal(tempDir, e)
              /\ e.dir
              /\ \/ /\ CanMkdirAll(fs, filePath)
                    /\ fs' = MkdirAll(fs, filePath)
                    /\ idx' = idx + 1
                    /\ UNCHANGED <<pc, ret>>
                 \/ /\ Return("failed to create directory")
                    /\ UNCHANGED <<fs, idx>>
           \/ /\ ZipLegal(tempDir, e)
              /\ ~e.dir
              /\ \/ /\ Return("mkdir")
                    /\ UNCHANGED <<fs, idx>>
                 \/ /\ CanMkdirAll(fs, Dir(filePath))
                    /\ Return("open file")
                    /\ fs' = made
                    /\ idx' = idx
                 \/ /\ CanMkdirAll(fs, Dir(filePath))
                    /\ CanCreate(made, filePath)
                    /\ bad
                    /\ \E part \in (IF arch.where = 1 THEN {<<>>}
                                    ELSE ProperPrefixes(e.data)) :
                          fs' = PutFile(made, filePath, part)
                    /\ Return("zip: corrupt entry")
                    /\ idx' = idx
                 \/ /\ CanMkdirAll(fs, Dir(filePath))
                    /\ CanCreate(made, filePath)
                    /\ ~bad
                    /\ \E part \in ProperPrefixes(e.data) :
                          fs' = PutFile(made, filePath, part)
                    /\ Return("write file")
                    /\ idx' = idx
                 \/ /\ CanMkdirAll(fs, Dir(filePath))
                    /\ CanCreate(made, filePath)
                    /\ ~bad
                    /\ fs' = PutFile(made, filePath, e.data)
                    /\ idx' = idx + 1
                    /\ UNCHANGED <<pc, ret>>
    /\ UNCHANGED <<cfg, feed, latest, fs0, tempDir, arch, open>>

(***************************************************************************)
(* Config.SelfUpdate after the extraction, and replaceFile.                *)
(***************************************************************************)
\* os.Chmod(newExec, 0755), not on Windows
SU_Chmod ==
    /\ pc = "chmod"
    /\ \/ /\ cfg.GOOS # "windows"
          /\ Return("chmod")
       \/ /\ cfg.GOOS = "windows" \/ NewExec(cfg) \in DOMAIN fs
          /\ pc' = "executable"
          /\ ret' = ret
    /\ UNCHANGED <<cfg, feed, latest, fs, fs0, tempDir, arch, idx, open>>

\* os.Executable()
SU_Executable ==
    /\ pc = "executable"
    /\ \/ Return("executable")
       \/ pc' = "rf_open" /\ ret' = ret
    /\ UNCHANGED <<cfg, feed, latest, fs, fs0, tempDir, arch, idx, open>>

\* os.Open(src)
RF_Open ==
    /\ pc = "rf_open"
    /\ \/ /\ Return("open src")
          /\ open' = open
       \/ /\ NewExec(cfg) \in DOMAIN fs
          /\ open' = open \cup {"source"}
          /\ pc' = "rf_create"
          /\ ret' = ret
    /\ UNCHANGED <<cfg, feed, latest, fs, fs0, tempDir, arch, idx>>

\* os.Stat(dst), whose error is ignored: without a file at dst, fi is nil and
\* fi.Mode() panics; then os.OpenFile(newTmpAbs, O_CREATE|O_RDWR), which does
\* not truncate a file that is there
RF_Create ==
    /\ pc = "rf_create"
    /\ \/ /\ OldExec(cfg) \notin DOMAIN fs
          /\ pc' = "panicked"
          /\ UNCHANGED <<ret, fs, open>>
       \/ /\ OldExec(cfg) \in DOMAIN fs
          /\ Return("create new")
          /\ UNCHANGED <<fs, open>>
       \/ /\ OldExec(cfg) \in DOMAIN fs
          /\ ~IsDir(fs, NewTmpAbs(cfg))
          /\ fs' = IF NewTmpAbs(cfg) \in DOMAIN fs THEN fs
                   ELSE PutFile(fs, NewTmpAbs(cfg), <<>>)
          /\ open' = open \cup {"tmpNew"}
          /\ pc' = "rf_copy"
          /\ ret' = ret
    /\ UNCHANGED <<cfg, feed, latest, fs0, tempDir, arch, idx>>

\* RF_Copy going on after a failed copy
RF_CopyMutIgnoreErr ==
    /\ pc = "rf_copy"
    /\ LET src == NewExec(cfg)
           new == NewTmpAbs(cfg)
       IN  /\ IsFile(fs, src)
           /\ \E n \in 0..Len(fs[src].data) :
                 fs' = PutFile(fs, new, Overwrite(fs[new].data, SubSeq(fs[src].data, 1, n)))
           /\ pc' = "rf_close"
           /\ ret' = ret
    /\ UNCHANGED <<cfg, feed, latest, fs0, tempDir, arch, idx, open>>

\* io.Copy(tmpNew, source): reading a directory fails; a failure on the way
\* leaves the bytes written so far
RF_Copy ==
    /\ pc = "rf_copy"
    /\ LET src == NewExec(cfg)
           new == NewTmpAbs(cfg)
       IN  \/ /\ IsDir(fs, src)
              /\ Return("copy")
              /\ fs' = fs
           \/ /\ IsFile(fs, src)
              /\ \E part \in ProperPrefixes(fs[src].data) :
                    fs' = PutFile(fs, new, Overwrite(fs[new].data, part))
              /\ Return("copy")
           \/ /\ IsFile(fs, src)
              /\ fs' = PutFile(fs, new, Overwrite(fs[new].data, fs[src].data))
              /\ pc' = "rf_close"
              /\ ret' = ret
    /\ UNCHANGED <<cfg, feed, latest, fs0, tempDir, arch, idx, open>>

\* tmpNew.Close(), then source.Close()
RF_Close ==
    /\ pc = "rf_close"
    /\ \/ /\ Return("close new")
          /\ open' = open
       \/ /\ Return("close src")
          /\ open' = open \ {"tmpNew"}
       \/ /\ open' = open \ {"tmpNew", "source"}
          /\ pc' = "rf_rename_old"
          /\ ret' = ret
    /\ UNCHANGED <<cfg, feed, latest, fs, fs0, tempDir, arch, idx>>

\* RF_RenameOld removing the running executable, not renaming it
RF_RenameOldMutRemove ==
    /\ pc = "rf_rename_old"
    /\ \/ /\ Return("rename old")
          /\ fs' = fs
       \/ /\ CanRename(fs, OldExec(cfg), OldTmpAbs(cfg))
          /\ fs' = Unlink(fs, OldExec(cfg))
          /\ pc' = "rf_rename_new"
          /\ ret' = ret
    /\ UNCHANGED <<cfg, feed, latest, fs0, tempDir, arch, idx, open>>

\* os.Rename(dst, oldTmpAbs)
RF_RenameOld ==
    /\ pc = "rf_rename_old"
    /\ \/ /\ Return("rename old")
          /\ fs' = fs
       \/ /\ CanRename(fs, OldExec(cfg), OldTmpAbs(cfg))
          /\ fs' = Rename(fs, OldExec(cfg), OldTmpAbs(cfg))
          /\ pc' = "rf_rename_new"
          /\ ret' = ret
    /\ UNCHANGED <<cfg, feed, latest, fs0, tempDir, arch, idx, open>>

\* RF_RenameNew moving the old binary back when the rename fails
RF_RenameNewMutRollback ==
    /\ pc = "rf_rename_new"
    /\ \/ /\ Return("rename new")
          /\ fs' = Rename(fs, OldTmpAbs(cfg), OldExec(cfg))
       \/ /\ CanRename(fs, NewTmpAbs(cfg), OldExec(cfg))
          /\ fs' = Rename(fs, NewTmpAbs(cfg), OldExec(cfg))
          /\ pc' = "rf_dispose"
          /\ ret' = ret
    /\ UNCHANGED <<cfg, feed, latest, fs0, tempDir, arch, idx, open>>

\* os.Rename(newTmpAbs, dst)
RF_RenameNew ==
    /\ pc = "rf_rename_new"
    /\ \/ /\ Return("rename new")
          /\ fs' = fs
       \/ /\ CanRename(fs, NewTmpAbs(cfg), OldExec(cfg))
          /\ fs' = Rename(fs, NewTmpAbs(cfg), OldExec(cfg))
          /\ pc' = "rf_dispose"
          /\ ret' = ret
    /\ UNCHANGED <<cfg, feed, latest, fs0, tempDir, arch, idx, open>>

\* the old binary: moved to os.TempDir() on Windows, removed elsewhere
RF_Dispose ==
    /\ pc = "rf_dispose"
    /\ LET old == OldTmpAbs(cfg)
           delFile == Join(SysTemp, <<Last(old)>>)
       IN  \/ /\ Return("dispose old")
              /\ fs' = fs
           \/ /\ cfg.GOOS = "windows"
              /\ CanRename(fs, old, delFile)
              /\ fs' = Rename(fs, old, delFile)
              /\ pc' = "rf_remove_src"
              /\ ret' = ret
           \/ /\ cfg.GOOS # "windows"
              /\ CanRemove(fs, old)
              /\ fs' = Unlink(fs, old)
              /\ pc' = "rf_remove_src"
              /\ ret' = ret
    /\ UNCHANGED <<cfg, feed, latest, fs0, tempDir, arch, idx, open>>

\* return os.Remove(src)
RF_RemoveSrc ==
    /\ pc = "rf_remove_src"
    /\ \/ /\ Return("remove src")
          /\ fs' = fs
       \/ /\ CanRemove(fs, NewExec(cfg))
          /\ fs' = Unlink(fs, NewExec(cfg))
          /\ Return("")
    /\ UNCHANGED <<cfg, feed, latest, fs0, tempDir, arch, idx, open>>

Next ==
    \/ Resolve
    \/ FetchFail
    \/ SU_Check
    \/ SU_GetTempDir
    \/ SU_Download
    \/ SU_Extract
    \/ TarEnd
    \/ TarEntry
    \/ ZipEnd
    \/ ZipEntry
    \/ SU_Chmod
    \/ SU_Executable
    \/ RF_Open
    \/ RF_Create
    \/ RF_Copy
    \/ RF_Close
    \/ RF_RenameOld
    \/ RF_RenameNew
    \/ RF_Dispose
    \/ RF_RemoveSrc

Spec == Init /\ [][Next]_vars

(***************************************************************************)
(* Properties of replaceFile and SelfUpdate, checked under Spec.           *)
(***************************************************************************)
dst == OldExec(cfg)

\* the errors replaceFile returns
ReplaceErrors ==
    {"open src", "create new", "copy", "close new", "close src", "rename old",
     "rename new", "dispose old", "remove src"}

\* replaceFile is running on an install path that held a file, or has returned
InReplaceFile ==
    /\ dst \in DOMAIN fs0
    /\ \/ pc \in {"rf_create", "rf_copy", "rf_close", "rf_rename_old", "rf_rename_new",
                  "rf_dispose", "rf_remove_src"}
       \/ pc = "returned" /\ ret.err \in ReplaceErrors \cup {""}

\* <binary>.new holds all the bytes of the extracted binary
Staged(f) ==
    /\ IsFile(f, NewTmpAbs(cfg))
    /\ IsFile(f, NewExec(cfg))
    /\ HasPrefix(f[NewTmpAbs(cfg)].data, f[NewExec(cfg)].data)

\* the state between the two renames, which a failure of the second one makes
\* the last one
Vacated ==
    /\ pc = "rf_rename_new" \/ (pc = "returned" /\ ret.err = "rename new")
    /\ IsFile(fs, OldTmpAbs(cfg))
    /\ fs[OldTmpAbs(cfg)].data = OldBin
    /\ Staged(fs)

\* C1 as stated: while replaceFile runs and when it has returned, with an error
\* or without, a file exists at the install path.
C1_NeverEmpty == InReplaceFile => dst \in DOMAIN fs

\* C1 amended: a file exists at the install path in every state of replaceFile
\* but those between the rename of the running executable to <binary>.old and
\* the rename of <binary>.new into place, the failure of that second rename
\* included; there the old executable is <binary>.old and the new one is
\* staged as <binary>.new.
C1_EmptyOnlyBetweenRenames == InReplaceFile => (dst \in DOMAIN fs \/ Vacated)

C1_Witness == pc = "returned" /\ ret.err = "rename new" /\ dst \notin DOMAIN fs /\ Vacated

Changed(f, g, p) ==
    \/ (p \in DOMAIN f) # (p \in DOMAIN g)
    \/ p \in DOMAIN f /\ p \in DOMAIN g /\ f[p] # g[p]

C2_Step ==
    /\ Changed(fs, fs', dst) =>
          /\ pc \in {"rf_rename_old", "rf_rename_new"}
          /\ Staged(fs)
          /\ open = {}
    /\ (dst \notin DOMAIN fs /\ dst \in DOMAIN fs') =>
          /\ IsFile(fs, OldTmpAbs(cfg))
          /\ fs[OldTmpAbs(cfg)].data = OldBin
          /\ fs'[dst] = fs[NewTmpAbs(cfg)]
    /\ (OldTmpAbs(cfg) \in DOMAIN fs /\ OldTmpAbs(cfg) \notin DOMAIN fs') =>
          /\ pc = "rf_dispose"
          /\ IsFile(fs, dst)
          /\ HasPrefix(fs[dst].data, NewBin)
          /\ NewTmpAbs(cfg) \notin DOMAIN fs
    /\ (pc' = "returned" /\ ret'.err \in ReplaceErrors) =>
          /\ ~Changed(fs, fs', dst)
          /\ ~Changed(fs, fs', OldTmpAbs(cfg))
    /\ pc = "returned" => (pc' = pc /\ fs' = fs)

\* C2: the running executable's path changes only once <binary>.new holds the
\* whole new binary and is closed; the new binary comes to the install path
\* only from <binary>.new and only after the old one is <binary>.old;
\* <binary>.old goes only once the new binary is in place; a failing step
\* changes neither the install path nor <binary>.old, and no step follows the
\* return.
C2_FixedOrder == [][C2_Step]_vars

C2_Witness ==
    /\ pc = "rf_remove_src"
    /\ IsFile(fs, dst)
    /\ HasPrefix(fs[dst].data, NewBin)
    /\ OldTmpAbs(cfg) \notin DOMAIN fs

\* C3: when replaceFile returns success the install path holds exactly the bytes
\* of the extracted binary, and neither <binary>.old nor <binary>.new is left
\* in the install directory, whatever the directory held before.
C3_ExactBytes ==
    (pc = "returned" /\ ret.err = "" /\ dst \in DOMAIN fs0) =>
        /\ IsFile(fs, dst)
        /\ fs[dst].data = NewBin
        /\ OldTmpAbs(cfg) \notin DOMAIN fs
        /\ NewTmpAbs(cfg) \notin DOMAIN fs

\* the staging directory is as the extraction left it
StagingKept == IsFile(fs, NewExec(cfg)) /\ IsFile(fs, OutFile)

\* C4: when the rename of the old binary, the rename of the new one or the
\* disposal of <binary>.old fails, SelfUpdate returns that error and the files
\* are as the failing step found them: nothing is moved back or cleaned up.
C4_NoRollback ==
    (pc = "returned" /\ dst \in DOMAIN fs0) =>
        /\ ret.err = "rename old" =>
              /\ IsFile(fs, dst) /\ fs[dst].data = OldBin
              /\ ~Changed(fs0, fs, OldTmpAbs(cfg))
              /\ Staged(fs) /\ StagingKept
        /\ ret.err = "rename new" =>
              /\ dst \notin DOMAIN fs
              /\ IsFile(fs, OldTmpAbs(cfg)) /\ fs[OldTmpAbs(cfg)].data = OldBin
              /\ Staged(fs) /\ StagingKept
        /\ ret.err = "dispose old" =>
              /\ IsFile(fs, dst) /\ HasPrefix(fs[dst].data, NewBin)
              /\ IsFile(fs, OldTmpAbs(cfg)) /\ fs[OldTmpAbs(cfg)].data = OldBin
              /\ NewTmpAbs(cfg) \notin DOMAIN fs
              /\ StagingKept

C4_Witness ==
    /\ pc = "returned"
    /\ ret.err = "dispose old"
    /\ IsFile(fs, OldTmpAbs(cfg))
    /\ IsFile(fs, dst)

\* C5: when the release resolution returned has the tag of the current version,
\* or a normalized version that is not above the normalized current version,
\* SelfUpdate returns "no newer releases found", and has made no staging
\* directory and changed no file.
C5_NoNewerNoChange ==
    (/\ pc \notin {"start", "resolved"}
     /\ latest.err = ""
     /\ \/ latest.rel.Tag = cfg.CurrentVersion
        \/ Compare(Normalize(latest.rel.Tag), Normalize(cfg.CurrentVersion)) <= 0) =>
        /\ pc = "returned"
        /\ ret.err = "no newer releases found"
        /\ fs = fs0
        /\ tempDir = <<>>

C5_Witness ==
    /\ pc = "returned"
    /\ ret.err = "no newer releases found"
    /\ latest.rel.Tag # cfg.CurrentVersion
    /\ fs = fs0

\* the errors of the download and of the extraction
StagingErrors ==
    {"failed to download file", "download interrupted", "open archive",
     "tar: invalid header", "mkdir", "create file", "write file", "illegal file path",
     "failed to create directory", "open file", "zip: corrupt entry"}

\* SelfUpdate failed for want of a binary file at the top of the extracted files
BinaryNotFound ==
    \/ ret.err = "chmod" /\ NewExec(cfg) \notin DOMAIN fs
    \/ ret.err = "open src" /\ NewExec(cfg) \notin DOMAIN fs
    \/ ret.err = "copy" /\ IsDir(fs, NewExec(cfg))

Outside(p) == p # StagingDir /\ ~Within(p, StagingDir)

\* C6: when SelfUpdate fails in the download, in the extraction, or for want of
\* the binary at the top level, it returns an error and nothing outside the
\* staging directory is created, changed or removed.
C6_OutsideUntouched ==
    (pc = "returned" /\ (ret.err \in StagingErrors \/ BinaryNotFound)) =>
        \A p \in DOMAIN fs \cup DOMAIN fs0 : Outside(p) => ~Changed(fs0, fs, p)

\* C7: after a successful SelfUpdate the staging directory and all it held are
\* gone.
C7_StagingDeleted ==
    (pc = "returned" /\ ret.err = "") =>
        \A p \in DOMAIN fs : Outside(p)

(***************************************************************************)
(* Properties of Latest, checked under SpecLatest.                         *)
(***************************************************************************)
\* Latest ran on the feed, with a configuration it accepts
Resolved ==
    /\ pc = "resolved"
    /\ latest.err # "failed to fetch releases"
    /\ ValidConfig(cfg)
    /\ ParseOK(cfg.ArchiveName)

Version(r) == Normalize(r.Tag)

Current == Normalize(cfg.CurrentVersion)

MarkedPre(r) == r.Prerelease \/ Prerelease(Version(r)) # ""

HasAsset(r) ==
    \E i \in 1..Len(r.Assets) :
        AssetFits(r.Assets[i], Render(cfg.ArchiveName, cfg.GOOS, Version(r)))

\* the release passes all the filters of resolution
Passes(r) ==
    /\ IsValid(Version(r))
    /\ cfg.AllowPreReleases \/ ~MarkedPre(r)
    /\ Compare(Version(r), Current) >= 0
    /\ HasAsset(r)

Candidates == {i \in 1..Len(feed) : Passes(feed[i])}

Returned == Resolved /\ latest.err = ""

\* C8: without AllowPreReleases, Latest returns no release the feed flags as a
\* pre-release or whose version has a pre-release suffix; and when a stable
\* release passes the filters, a stable release is returned, whatever
\* pre-releases of higher versions the feed holds.
C8_NoPreReleases ==
    (Resolved /\ ~cfg.AllowPreReleases) =>
        /\ latest.err = "" => ~MarkedPre(latest.rel)
        /\ Candidates # {} =>
              /\ latest.err = ""
              /\ \E i \in Candidates : latest.rel.Tag = feed[i].Tag

C8_Witness ==
    /\ Returned
    /\ ~cfg.AllowPreReleases
    /\ \E i \in 1..Len(feed) :
          /\ MarkedPre(feed[i])
          /\ HasAsset(feed[i])
          /\ Compare(Version(feed[i]), Version(latest.rel)) > 0

\* C9: Latest returns a release that passes the filters and whose version no
\* release that passes them exceeds, and it fails with "no releases found"
\* exactly when none passes.
C9_GreatestCandidate ==
    Resolved =>
        /\ latest.err = "no releases found" <=> Candidates = {}
        /\ latest.err = "" =>
              /\ \E i \in Candidates : Version(feed[i]) = Version(latest.rel)
              /\ \A i \in Candidates :
                    Compare(Version(feed[i]), Version(latest.rel)) <= 0

C9_Witness ==
    /\ Returned
    /\ \E i, j \in Candidates :
          /\ Compare(Version(feed[i]), Version(feed[j])) < 0
          /\ Version(feed[j]) = Version(latest.rel)

Reordered(rs) ==
    {[i \in 1..Len(rs) |-> rs[p[i]]] : p \in Permutations(1..Len(rs))}

\* C11: Latest returns the same Release on every feed that holds the same
\* releases in another order, feeds with two tags of one normalized version
\* ('1.0.0' and 'v1.0.0') included, and the same Release when it is run again.
\* (GitHub gives every release of a repository a tag of its own.)
C11_OrderIrrelevant ==
    (/\ pc = "resolved"
     /\ latest.err # "failed to fetch releases"
     /\ \A i, j \in 1..Len(feed) : feed[i].Tag = feed[j].Tag => i = j) =>
        \A rs \in Reordered(feed) : Latest(cfg, rs) = latest

(***************************************************************************)
(* The extraction of the archive, under Spec.                              *)
(***************************************************************************)
C12_Step ==
    (pc = "zip" /\ idx <= Len(arch.entries)) =>
        /\ \A p \in DOMAIN fs \cup DOMAIN fs' :
              Changed(fs, fs', p) => Within(p, tempDir)
        /\ ~Within(ZipPath(tempDir, arch.entries[idx]), tempDir) =>
              /\ pc' = "returned"
              /\ ret'.err = "illegal file path"
              /\ fs' = fs
              /\ idx' = idx

\* C12: unzip stops at an entry whose resolved path is not inside the
\* destination directory: it returns an error there, writes nothing for that
\* entry or any later one, keeps what earlier entries wrote, and no step of
\* unzip creates or writes anything outside the destination directory.
C12_ZipSlipRejected == [][C12_Step]_vars

C12_Witness ==
    /\ pc = "returned"
    /\ ret.err = "illegal file path"
    /\ idx = 2
    /\ arch.entries[idx].name = <<"a", "..", "..", "x">>
    /\ IsFile(fs, Append(tempDir, "app"))
    /\ Append(tempDir, "late") \notin DOMAIN fs
    /\ Append(SysTemp, "x") \notin DOMAIN fs

\* whether some component of the name of entry e contains '..'
NameHasDotDot(e) == \E i \in DOMAIN e.name : ContainsDotDot(e.name[i])

C13_Step ==
    (/\ pc = "tar"
     /\ idx <= Len(arch.entries)
     /\ ~TarHeaderBad
     /\ NameHasDotDot(arch.entries[idx])) =>
        /\ fs' = fs
        /\ pc' = "tar"
        /\ idx' = idx + 1

\* C13: the tar extraction passes over every entry whose name has '..' in any
\* of its components ('../x', 'a/../../x'): nothing is created for the entry,
\* no error is returned for it, and the extraction goes on to the next entry.
C13_DotDotSkipped == [][C13_Step]_vars

\* C14: every failure of the tar extraction, a corrupt stream met while the
\* bytes of an entry are read included, ends with tarExtract returning an
\* error; no step of the extraction aborts the process.
C14_TarNeverAborts == [][pc = "tar" => pc' \in {"tar", "chmod", "returned"}]_vars

(***************************************************************************)
(* The asset of the returned release, under SpecLatest.                    *)
(***************************************************************************)
\* the positions of the assets of release r that fit the rendered template
Fitting(r) ==
    {k \in 1..Len(r.Assets) :
        AssetFits(r.Assets[k], Render(cfg.ArchiveName, cfg.GOOS, Version(r)))}

\* the returned Release is built from release r and its asset at position k
BuiltFrom(r, k) ==
    LET a == r.Assets[k]
        archiveName == Render(cfg.ArchiveName, cfg.GOOS, Version(r))
    IN  /\ latest.rel.Tag = r.Tag
        /\ latest.rel.Prerelease = r.Prerelease
        /\ latest.rel.Name = a.Name
        /\ latest.rel.URL = a.URL
        /\ latest.rel.Size = a.Size
        /\ latest.rel.FileType =
              DetectFileType(SubSeq(a.Name, Len(archiveName) + 1, Len(a.Name)))

\* the last candidate of its normalized version in the feed
LastOfVersion(i) ==
    \A j \in Candidates : Version(feed[j]) = Version(feed[i]) => j <= i

\* C15 as stated: one candidate is kept per normalized version, and of the
\* assets of a release that fit the template the last one gives the returned
\* Name, URL, Size and FileType.
C15_LastAssetWins ==
    Returned =>
        \E i \in Candidates :
            \E k \in Fitting(feed[i]) :
                /\ \A l \in Fitting(feed[i]) : l <= k
                /\ BuiltFrom(feed[i], k)

\* C15: one candidate is kept per normalized version, the last release of
\* that version in the feed, and of the assets of a release that fit the
\* template the first one gives the returned Name, URL, Size and FileType.
C15_FirstAssetWins ==
    Returned =>
        \E i \in Candidates :
            /\ LastOfVersion(i)
            /\ \E k \in Fitting(feed[i]) :
                  /\ \A l \in Fitting(feed[i]) : k <= l
                  /\ BuiltFrom(feed[i], k)

C15_Witness ==
    /\ Returned
    /\ \E i \in Candidates :
          /\ LastOfVersion(i)
          /\ Cardinality(Fitting(feed[i])) >= 2
          /\ \E k \in Fitting(feed[i]) :
                /\ \A l \in Fitting(feed[i]) : k <= l
                /\ BuiltFrom(feed[i], k)

====
